---------------------------- MODULE Spec2Model ----------------------------
(***************************************************************************)
(* The workshop's complete agent (steps/step11_complete_agent.py) and the  *)
(* tool-invocation layer it runs on.  The agent's own code is on_tell_joke,*)
(* the get_weather DataMap declaration and on_summary.  The Dispatcher and *)
(* the Template Renderer that evaluate a tool invocation are not in the    *)
(* repository's files; they are modelled from sections 4.1 and 4.3 of the  *)
(* specification.                                                          *)
(*                                                                         *)
(* Text is a sequence of strings: a template literal is one element, a     *)
(* substituted value contributes one element per character.                *)
(***************************************************************************)
EXTENDS Naturals, Sequences, FiniteSets, TLC

VARIABLES env, phase, registry, languages, inv, session, now, summary, files, ngrok

vars == <<env, phase, registry, languages, inv, session, now, summary, files, ngrok>>

(***************************************************************************)
(* Bounds and inputs                                                       *)
(***************************************************************************)
Calls == {"c1", "c2"}

\* seconds the wall clock advances
MaxClock == 1

NoKey == << >>

Keys == {NoKey, <<"k", "9">>}

NoCity == <<"<absent>">>

Cities == {<<"S", " ", "F">>, <<"R", "&", "B">>}

ArgValues == Cities \cup {NoCity}

\* tunnels the ngrok API lists
MaxTunnels == 2

\* requests.get(..., timeout=5) in on_tell_joke
JOKE_TIMEOUT == 5

\* the Dispatcher's bounded HTTP timeout of the remote path, in seconds
REMOTE_TIMEOUT == 2

(***************************************************************************)
(* Template Renderer                                                       *)
(***************************************************************************)
Lit(s) == [t |-> "lit", s |-> s, enc |-> FALSE, ns |-> "", path |-> << >>]

Tok(enc, ns, path) == [t |-> "tok", s |-> "", enc |-> enc, ns |-> ns, path |-> path]

Unreserved == {"S", "F", "R", "B", "k", "9", "u", "n", "7", "2", "4", "0", "1"}

\* percent-encoding of one character for a URL query component
EncChar(ch) ==
    IF ch \in Unreserved THEN <<ch>>
    ELSE IF ch = " " THEN <<"%", "2", "0">>
    ELSE IF ch = "&" THEN <<"%", "2", "6">>
    ELSE IF ch = "%" THEN <<"%", "2", "5">>
    ELSE <<"%", "?", "?">>

RECURSIVE Enc(_)
Enc(v) == IF v = << >> THEN << >> ELSE EncChar(Head(v)) \o Enc(Tail(v))

\* a context: args is the city or NoCity; resp is a function from the paths
\* the parsed body holds to their values, with the empty domain before a
\* successful call
NoResponse == << >>

Ctx(a, r) == [args |-> a, resp |-> r]

Resolvable(tok, ctx) ==
    IF tok.ns = "args"
    THEN tok.path = <<"city">> /\ ctx.args # NoCity
    ELSE tok.path \in DOMAIN ctx.resp

Resolve(tok, ctx) ==
    IF tok.ns = "args" THEN ctx.args ELSE ctx.resp[tok.path]

Subst(tok, ctx) ==
    IF tok.enc THEN Enc(Resolve(tok, ctx)) ELSE Resolve(tok, ctx)

Unresolved(template, ctx) ==
    {k \in 1..Len(template) :
        template[k].t = "tok" /\ ~Resolvable(template[k], ctx)}

\* the rendered text; an unresolvable token contributes nothing, and whether
\* that is an error is the caller's decision (Unresolved)
RECURSIVE Render(_, _)
Render(template, ctx) ==
    IF template = << >> THEN << >>
    ELSE LET seg == Head(template)
             piece == IF seg.t = "lit" THEN <<seg.s>>
                      ELSE IF Resolvable(seg, ctx) THEN Subst(seg, ctx)
                      ELSE << >>
         IN piece \o Render(Tail(template), ctx)

(***************************************************************************)
(* The get_weather DataMap, as _register_weather_datamap declares it       *)
(***************************************************************************)
KeyLits(key) == [k \in 1..Len(key) |-> Lit(key[k])]

WeatherUrlTemplatePlain(key) ==
    <<Lit("https://api.weatherapi.com/v1/current.json"), Lit("?key=")>>
    \o KeyLits(key)
    \o <<Lit("&q="), Tok(FALSE, "args", <<"city">>)>>

WeatherUrlTemplate(key) ==
    <<Lit("https://api.weatherapi.com/v1/current.json"), Lit("?key=")>>
    \o KeyLits(key)
    \o <<Lit("&q="), Tok(TRUE, "args", <<"city">>)>>

P_text == <<"current", "condition", "text">>
P_temp == <<"current", "temp_f">>
P_hum == <<"current", "humidity">>
P_feels == <<"current", "feelslike_f">>

WeatherOutputTemplateTypo ==
    <<Lit("Weather in "), Tok(FALSE, "args", <<"city">>), Lit(": "),
      Tok(FALSE, "response", P_text), Lit(", "),
      Tok(FALSE, "response", P_temp), Lit(" degrees Fahrenheit, "),
      Lit("humidity "), Tok(FALSE, "response", P_hum), Lit(" percent. "),
      Lit("Feels like "), Tok(FALSE, "response", <<"current", "feels_like_f">>),
      Lit(" degrees.")>>

WeatherOutputTemplate ==
    <<Lit("Weather in "), Tok(FALSE, "args", <<"city">>), Lit(": "),
      Tok(FALSE, "response", P_text), Lit(", "),
      Tok(FALSE, "response", P_temp), Lit(" degrees Fahrenheit, "),
      Lit("humidity "), Tok(FALSE, "response", P_hum), Lit(" percent. "),
      Lit("Feels like "), Tok(FALSE, "response", P_feels), Lit(" degrees.")>>

WeatherFallbackTemplateResp ==
    <<Lit("Sorry, I couldn't get the weather for "),
      Tok(FALSE, "args", <<"city">>), Lit(". "),
      Lit("It was "), Tok(FALSE, "response", P_text), Lit(".")>>

WeatherFallbackTemplate ==
    <<Lit("Sorry, I couldn't get the weather for "),
      Tok(FALSE, "args", <<"city">>), Lit(". "),
      Lit("Please check the city name and try again.")>>

WeatherRequiredNone == {}

WeatherRequired == {"city"}

\* function_fillers of add_language("English", "en-US", ...)
FunctionFillers ==
    <<"Let me check on that for you...",
      "One moment while I look that up...",
      "Hang on just a sec...">>

\* the languages _configure_voice adds, each with its generic filler pool
ConfiguredLanguages == [l \in {"en-US"} |-> FunctionFillers]

JokeFillersWrongTag ==
    [l \in {"en"} |->
        <<"Let me think of a good one...",
          "Oh, I've got one for you...",
          "Here comes a good one...">>]

\* fillers= of define_tool(name="tell_joke", ...)
JokeFillers ==
    [l \in {"en-US"} |->
        <<"Let me think of a good one...",
          "Oh, I've got one for you...",
          "Here comes a good one...">>]

NoFillers == [l \in {} |-> << >>]

\* the registered tools after __init__
TellJokeTool ==
    [name |-> "tell_joke", kind |-> "local", required |-> {}, fillers |-> JokeFillers]

WeatherTool(key) ==
    [name |-> "get_weather", kind |-> "remote", required |-> WeatherRequired,
     fillers |-> NoFillers,
     url |-> WeatherUrlTemplate(key),
     output |-> WeatherOutputTemplate,
     fallback |-> WeatherFallbackTemplate]

ToolNames == {"tell_joke", "get_weather"}

ToolDef(name) == CHOOSE t \in registry : t.name = name

(***************************************************************************)
(* One tool invocation of a call session                                   *)
(***************************************************************************)
NoText == << >>

IdleInv ==
    [tool |-> "none", args |-> NoCity, pc |-> "Idle", http |-> 0,
     req |-> "none", elapsed |-> 0, outcome |-> "none", resp |-> NoResponse,
     handler |-> "none", err |-> "none", url |-> NoText,
     kind |-> "none", text |-> NoText]

\* SwaigFunctionResult texts of on_tell_joke
JokeUnavailable == <<"Sorry, my joke book is unavailable right now.">>

JokeBreak == <<"My joke service is taking a break. Try again in a moment!">>

JokeNoneFound == <<"I couldn't find a joke this time. Try again!">>

JokeText == <<"Here's a dad joke: ", "Why did the scarecrow win an award?">>

\* the Dispatcher's generic apologetic result for a failed local handler
GenericApology == <<"Sorry, something went wrong.">>

HandlerReturned(i, k, t) ==
    [i EXCEPT !.handler = "returned", !.req = IF i.req = "pending" THEN "done" ELSE i.req,
              !.kind = k, !.text = t]

HandlerRaised(i, e) ==
    [i EXCEPT !.handler = "raised", !.req = "done", !.err = e]

\* on_tell_joke up to the call of requests.get
IssueJokeRequest(i) ==
    [i EXCEPT !.http = i.http + 1, !.req = "pending", !.elapsed = 0]

TellJokeStartNoCheck(i, key) == IssueJokeRequest(i)

TellJokeStart(i, key) ==
    IF key = NoKey
    THEN HandlerReturned(i, "unavailable", JokeUnavailable)
    ELSE IssueJokeRequest(i)

\* except requests.RequestException
RetryRequest(i) == IssueJokeRequest(i)

ExceptRequestException(i) == HandlerReturned(i, "break", JokeBreak)

\* what the upstream can answer to the joke request
JokeOutcomes ==
    {"conn_error", "http_error", "not_json", "empty_list", "joke_list",
     "no_joke_field", "non_mapping", "error_object"}

\* on_tell_joke from the response on: raise_for_status, resp.json(), jokes[0]['joke'].
\* resp.json() on a body that is not JSON raises requests' JSONDecodeError,
\* which is a RequestException
TellJokeResponse(i, outcome) ==
    LET j == [i EXCEPT !.outcome = outcome]
    IN  CASE outcome \in {"conn_error", "http_error", "not_json"} ->
                ExceptRequestException(j)
          [] outcome = "empty_list" -> HandlerReturned(j, "none_found", JokeNoneFound)
          [] outcome = "joke_list" -> HandlerReturned(j, "joke", JokeText)
          [] outcome \in {"no_joke_field", "error_object"} -> HandlerRaised(j, "KeyError")
          [] outcome = "non_mapping" -> HandlerRaised(j, "TypeError")

TimeoutNever(elapsed) == FALSE

\* timeout=5: the request gives up once the upstream has been silent that long
TimeoutExpired(elapsed) == elapsed >= JOKE_TIMEOUT

TellJokeTimeout(i) == ExceptRequestException([i EXCEPT !.outcome = "timeout"])

(***************************************************************************)
(* The Dispatcher (specification 4.3)                                      *)
(***************************************************************************)
Rank(pc) ==
    CASE pc = "Idle" -> 0
      [] pc = "Received" -> 1
      [] pc = "Validated" -> 2
      [] pc \in {"Executing", "Rendering"} -> 3
      [] pc \in {"Succeeded", "FallingBack"} -> 4
      [] pc = "Returned" -> 5

Provided(a) == IF a = NoCity THEN {} ELSE {"city"}

\* step 2: a missing required field is an ArgumentValidationError
Validated(i, def) ==
    IF def.required \subseteq Provided(i.args)
    THEN [i EXCEPT !.pc = "Validated"]
    ELSE [i EXCEPT !.pc = "FallingBack", !.err = "ArgumentValidationError"]

\* step 4: a handler that returned has succeeded, one that raised is caught
Settle(i) ==
    IF i.handler = "returned" THEN [i EXCEPT !.pc = "Succeeded"]
    ELSE IF i.handler = "raised" THEN [i EXCEPT !.pc = "FallingBack"]
    ELSE i

P_all == {P_text, P_temp, P_hum, P_feels}

RespValue(p) ==
    CASE p = P_text -> <<"S", "u", "n">>
      [] p = P_temp -> <<"7", "2">>
      [] p = P_hum -> <<"4", "0">>
      [] p = P_feels -> <<"7", "1">>

Response(present) == [p \in present |-> RespValue(p)]

\* parsed bodies of a successful weather call: complete, one field short, empty
ResponseShapes == {P_all, {}} \cup {P_all \ {p} : p \in P_all}

RemoteOutcomes == {"status_error", "unparsable", "ok"}

ErrorTag(outcome) ==
    CASE outcome = "timeout" -> "UpstreamTimeoutError"
      [] outcome = "status_error" -> "UpstreamStatusError"
      [] outcome = "unparsable" -> "MalformedResponseError"

\* step 5, after the request: the success template with both namespaces, or
\* the way to the fallback
RemoteEvaluate(i, def, outcome, present) ==
    LET j == [i EXCEPT !.outcome = outcome, !.req = "done"]
    IN  IF outcome # "ok"
        THEN [j EXCEPT !.pc = "FallingBack", !.err = ErrorTag(outcome)]
        ELSE LET ctx == Ctx(i.args, Response(present))
             IN  IF Unresolved(def.output, ctx) = {}
                 THEN [j EXCEPT !.pc = "Succeeded", !.resp = Response(present),
                                !.kind = "success", !.text = Render(def.output, ctx)]
                 ELSE [j EXCEPT !.pc = "FallingBack", !.resp = Response(present),
                                !.err = "TemplateResolutionError"]

\* the fallback result: the fallback template in the args-only context.  An
\* unresolved response.* token is a fatal configuration error; an unresolved
\* args.* token is not fatal and contributes no text
FallbackResult(i, def) ==
    LET ctx == Ctx(i.args, NoResponse)
        fatal == {k \in Unresolved(def.fallback, ctx) : def.fallback[k].ns = "response"}
    IN  IF fatal = {}
        THEN [i EXCEPT !.pc = "Returned", !.kind = "fallback",
                       !.text = Render(def.fallback, ctx)]
        ELSE [i EXCEPT !.pc = "Returned", !.kind = "config_error", !.text = NoText]

Returned(i, def) ==
    IF i.pc = "Succeeded" THEN [i EXCEPT !.pc = "Returned"]
    ELSE IF def.kind = "local"
    THEN [i EXCEPT !.pc = "Returned", !.kind = "apology", !.text = GenericApology]
    ELSE FallbackResult(i, def)

(***************************************************************************)
(* Actions                                                                 *)
(***************************************************************************)
EnvNames == {"API_NINJAS_KEY", "WEATHER_API_KEY"}

NoFile == [owner |-> "none", raw |-> "none", complete |-> FALSE]

FileIds == {<<"id", c>> : c \in Calls} \cup {<<"ts", t>> : t \in 0..MaxClock}

\* a call session: its language, the filler spoken for its invocation, and
\* whether the call is still up
NoSession == [lang |-> "none", filler |-> "unset", live |-> TRUE]

\* the process before check_ngrok has run
NoNgrok ==
    [pc |-> "start", before |-> "unset", proxy |-> "unset", ret |-> "none",
     raised |-> FALSE, probe |-> "none", tunnels |-> << >>]

NoSummary == [status |-> "none", id |-> <<"none", 0>>, raw |-> "none", err |-> "none"]

Init ==
    /\ env \in [EnvNames -> Keys]
    /\ phase = "init"
    /\ registry = {}
    /\ languages = NoFillers
    /\ inv = [c \in Calls |-> IdleInv]
    /\ session = [c \in Calls |-> NoSession]
    /\ ngrok = NoNgrok
    /\ now = 0
    /\ summary = [c \in Calls |-> NoSummary]
    /\ files = [f \in FileIds |-> NoFile]

\* CompleteAgent.__init__
Construct ==
    /\ phase = "init"
    /\ phase' = "constructed"
    /\ registry' = {TellJokeTool, WeatherTool(env["WEATHER_API_KEY"])}
    /\ languages' = ConfiguredLanguages
    /\ UNCHANGED <<env, inv, session, now, summary, files, ngrok>>

\* agent.run()
Run ==
    /\ phase = "constructed"
    /\ phase' = "running"
    /\ UNCHANGED <<env, registry, languages, inv, session, now, summary, files, ngrok>>

Tick ==
    /\ now < MaxClock
    /\ now' = now + 1
    /\ UNCHANGED <<env, phase, registry, languages, inv, session, summary, files, ngrok>>

Others == <<env, phase, registry, languages, session, now, summary, files, ngrok>>

Receive(c, t, a) ==
    /\ phase = "running"
    /\ summary[c].status = "none"
    /\ inv[c].pc \in {"Idle", "Returned"}
    /\ t = "tell_joke" => a = NoCity
    /\ inv' = [inv EXCEPT ![c] = [IdleInv EXCEPT !.tool = t, !.args = a,
                                                 !.pc = "Received"]]
    /\ UNCHANGED Others

Validate(c) ==
    /\ inv[c].pc = "Received"
    /\ inv' = [inv EXCEPT ![c] = Validated(inv[c], ToolDef(inv[c].tool))]
    /\ UNCHANGED Others

Begin(c) ==
    /\ inv[c].pc = "Validated"
    /\ inv' = [inv EXCEPT ![c] =
                 IF ToolDef(inv[c].tool).kind = "local"
                 THEN [inv[c] EXCEPT !.pc = "Executing"]
                 ELSE [inv[c] EXCEPT !.pc = "Rendering",
                          !.url = Render(ToolDef(inv[c].tool).url,
                                         Ctx(inv[c].args, NoResponse))]]
    /\ UNCHANGED Others

\* on_tell_joke entered only while no other call has a request in flight
HandlerStartShared(c) ==
    /\ inv[c].pc = "Executing"
    /\ inv[c].handler = "none"
    /\ inv[c].req = "none"
    /\ \A d \in Calls \ {c} : inv[d].req # "pending"
    /\ inv' = [inv EXCEPT ![c] = Settle(TellJokeStart(inv[c], env["API_NINJAS_KEY"]))]
    /\ UNCHANGED Others

\* on_tell_joke is entered
HandlerStart(c) ==
    /\ inv[c].pc = "Executing"
    /\ inv[c].handler = "none"
    /\ inv[c].req = "none"
    /\ inv' = [inv EXCEPT ![c] = Settle(TellJokeStart(inv[c], env["API_NINJAS_KEY"]))]
    /\ UNCHANGED Others

\* the upstream answers the joke request
JokeRespond(c, outcome) ==
    /\ inv[c].pc = "Executing"
    /\ inv[c].req = "pending"
    /\ ~TimeoutExpired(inv[c].elapsed)
    /\ inv' = [inv EXCEPT ![c] =
                 Settle(TellJokeResponse(inv[c], outcome))]
    /\ UNCHANGED Others

\* the remote path issues its request
SendRequest(c) ==
    /\ inv[c].pc = "Rendering"
    /\ inv[c].req = "none"
    /\ inv' = [inv EXCEPT ![c] = [inv[c] EXCEPT !.http = inv[c].http + 1,
                                                !.req = "pending", !.elapsed = 0]]
    /\ UNCHANGED Others

RemoteRespond(c, outcome, present) ==
    /\ inv[c].pc = "Rendering"
    /\ inv[c].req = "pending"
    /\ inv[c].elapsed < REMOTE_TIMEOUT
    /\ outcome # "ok" => present = {}
    /\ inv' = [inv EXCEPT ![c] =
                 RemoteEvaluate(inv[c], ToolDef(inv[c].tool), outcome, present)]
    /\ UNCHANGED Others

Limit(i) == IF i.pc = "Executing" THEN JOKE_TIMEOUT ELSE REMOTE_TIMEOUT

\* a second passes with the upstream silent
WaitTick(c) ==
    /\ inv[c].req = "pending"
    /\ inv[c].elapsed < Limit(inv[c])
    /\ inv' = [inv EXCEPT ![c] = [inv[c] EXCEPT !.elapsed = inv[c].elapsed + 1]]
    /\ UNCHANGED Others

JokeTimeout(c) ==
    /\ inv[c].pc = "Executing"
    /\ inv[c].req = "pending"
    /\ TimeoutExpired(inv[c].elapsed)
    /\ inv' = [inv EXCEPT ![c] = Settle(TellJokeTimeout(inv[c]))]
    /\ UNCHANGED Others

RemoteTimeout(c) ==
    /\ inv[c].pc = "Rendering"
    /\ inv[c].req = "pending"
    /\ inv[c].elapsed >= REMOTE_TIMEOUT
    /\ inv' = [inv EXCEPT ![c] =
                 RemoteEvaluate(inv[c], ToolDef(inv[c].tool), "timeout", {})]
    /\ UNCHANGED Others

Finish(c) ==
    /\ inv[c].pc \in {"Succeeded", "FallingBack"}
    /\ inv' = [inv EXCEPT ![c] = Returned(inv[c], ToolDef(inv[c].tool))]
    /\ UNCHANGED Others

(***************************************************************************)
(* on_summary                                                              *)
(***************************************************************************)
RawData == {"None", "no_call_id", "with_call_id"}

IoOutcomes == {"ok", "makedirs_fails", "open_fails", "write_fails"}

\* (raw_data or {}).get("call_id", datetime.now().strftime("%Y%m%d_%H%M%S"))
CallId(c, raw, t) == IF raw = "with_call_id" THEN <<"id", c>> ELSE <<"ts", t>>

\* os.makedirs, open(filepath, "w"), json.dump; an OSError leaves on_summary.
\* The call is over: its invocation context is discarded
OnSummary(c, raw, io) ==
    LET id == CallId(c, raw, now)
    IN  CASE io \in {"makedirs_fails", "open_fails"} ->
               [sum |-> [status |-> "raised", id |-> id, raw |-> raw, err |-> "OSError"],
                fs |-> files]
          [] io = "write_fails" ->
               [sum |-> [status |-> "raised", id |-> id, raw |-> raw, err |-> "OSError"],
                fs |-> [files EXCEPT ![id] = [owner |-> c, raw |-> raw, complete |-> FALSE]]]
          [] io = "ok" ->
               [sum |-> [status |-> "saved", id |-> id, raw |-> raw, err |-> "none"],
                fs |-> [files EXCEPT ![id] = [owner |-> c, raw |-> raw, complete |-> TRUE]]]

Summary(c, raw, io) ==
    /\ phase = "running"
    /\ summary[c].status = "none"
    /\ inv[c].pc \in {"Idle", "Returned"}
    /\ summary' = [summary EXCEPT ![c] = OnSummary(c, raw, io).sum]
    /\ files' = OnSummary(c, raw, io).fs
    /\ inv' = [inv EXCEPT ![c] = IdleInv]
    /\ UNCHANGED <<env, phase, registry, languages, session, now, ngrok>>

(***************************************************************************)
(* The Filler Selector (specification 4.4)                                 *)
(***************************************************************************)
Languages == {"en-US", "fr-FR"}

\* the tool's override pool for the language when it has a non-empty one,
\* otherwise the language's generic pool, otherwise no pool
FillerPool(lang, def) ==
    IF lang \in DOMAIN def.fillers /\ def.fillers[lang] # << >>
    THEN def.fillers[lang]
    ELSE IF lang \in DOMAIN languages THEN languages[lang]
    ELSE << >>

\* next(language, toolName): any phrase of the pool, the empty string without one
FillerChoices(lang, def) ==
    IF FillerPool(lang, def) = << >> THEN {""}
    ELSE {FillerPool(lang, def)[k] : k \in 1..Len(FillerPool(lang, def))}

\* a call comes in, in its language
Answer(c, lang) ==
    /\ phase = "running"
    /\ session[c].lang = "none"
    /\ session' = [session EXCEPT ![c] = [session[c] EXCEPT !.lang = lang]]
    /\ UNCHANGED <<env, phase, registry, languages, inv, now, summary, files, ngrok>>

ReceiveAnswered(c, t, a) ==
    /\ session[c].lang # "none"
    /\ Receive(c, t, a)

\* step 3: the filler is chosen and spoken before execution begins
EmitFiller(c, phrase) ==
    /\ inv[c].pc = "Validated"
    /\ session[c].filler = "unset"
    /\ phrase \in FillerChoices(session[c].lang, ToolDef(inv[c].tool))
    /\ session' = [session EXCEPT ![c] = [session[c] EXCEPT !.filler = phrase]]
    /\ UNCHANGED <<env, phase, registry, languages, inv, now, summary, files, ngrok>>

BeginSpoken(c) ==
    /\ session[c].filler # "unset"
    /\ Begin(c)

Phrases ==
    {FunctionFillers[k] : k \in 1..Len(FunctionFillers)}
    \cup UNION {{JokeFillers[l][k] : k \in 1..Len(JokeFillers[l])} : l \in DOMAIN JokeFillers}
    \cup {""}

FillerNext ==
    \/ Construct
    \/ Run
    \/ \E c \in Calls, l \in Languages : Answer(c, l)
    \/ \E c \in Calls, t \in ToolNames, a \in ArgValues : ReceiveAnswered(c, t, a)
    \/ \E c \in Calls : Validate(c)
    \/ \E c \in Calls, f \in Phrases : EmitFiller(c, f)
    \/ \E c \in Calls : BeginSpoken(c)

\* the invocations up to the start of execution, with the filler spoken
FillerSpec == Init /\ [][FillerNext]_vars

(***************************************************************************)
(* check_ngrok                                                             *)
(***************************************************************************)
\* SWML_PROXY_URL_BASE: not set, set to the empty string, set to a URL
ProxyValues == {"unset", "", "https://env.example"}

TunnelUrls == {"https://a.ngrok.app", "https://b.ngrok.app"}

\* an element of "tunnels": a mapping with its proto and its public_url
\* (absent, null or a string), or something that is no mapping
TunnelEntries ==
    [proto : {"https", "http"}, url : {"absent", "null"} \cup TunnelUrls]
    \cup {[proto |-> "not_mapping", url |-> "absent"]}

TunnelLists == UNION {[1..n -> TunnelEntries] : n \in 0..MaxTunnels}

\* what the probe of 127.0.0.1:4040 gives: no connection, no answer within
\* timeout=1, a body that is not JSON, JSON that is no object, an object
\* whose tunnels is no list, or an object with its tunnels (none when the key
\* is missing)
ProbeResults ==
    {"conn_error", "timeout", "not_json", "not_object", "tunnels_not_list", "ok"}

Found(u) == [r |-> "found", url |-> u]

Raised(e) == [r |-> "raised", url |-> e]

NotFound == [r |-> "none", url |-> ""]

RECURSIVE ScanTunnelsSkip(_)
ScanTunnelsSkip(ts) ==
    IF ts = << >> THEN NotFound
    ELSE LET t == Head(ts)
         IN  IF t.proto = "not_mapping" THEN Raised("AttributeError")
             ELSE IF t.proto = "https" /\ t.url \in TunnelUrls THEN Found(t.url)
             ELSE ScanTunnelsSkip(Tail(ts))

\* for t in tunnels: if t.get("proto") == "https": url = t["public_url"];
\* os.environ[...] = url
RECURSIVE ScanTunnels(_)
ScanTunnels(ts) ==
    IF ts = << >> THEN NotFound
    ELSE LET t == Head(ts)
         IN  IF t.proto = "not_mapping" THEN Raised("AttributeError")
             ELSE IF t.proto = "https"
             THEN IF t.url = "absent" THEN Raised("KeyError")
                  ELSE IF t.url = "null" THEN Raised("TypeError")
                  ELSE Found(t.url)
             ELSE ScanTunnels(Tail(ts))

\* the try block: every Exception is swallowed
TryDetect(probe, ts) ==
    IF probe = "ok" THEN ScanTunnels(ts) ELSE Raised(probe)

CheckNgrok(g, probe, ts) ==
    LET d == TryDetect(probe, ts)
        h == [g EXCEPT !.pc = "done", !.probe = probe, !.tunnels = ts]
    IN  IF d.r = "found"
        THEN [h EXCEPT !.proxy = d.url, !.ret = d.url]
        ELSE [h EXCEPT !.ret = IF g.proxy = "unset" THEN "" ELSE g.proxy]

\* load_dotenv()
LoadDotenv(p) ==
    /\ ngrok.pc = "start"
    /\ ngrok' = [ngrok EXCEPT !.pc = "loaded", !.before = p, !.proxy = p]
    /\ UNCHANGED <<env, phase, registry, languages, inv, session, now, summary, files>>

\* check_ngrok()
RunCheckNgrok(probe, ts) ==
    /\ ngrok.pc = "loaded"
    /\ probe # "ok" => ts = << >>
    /\ ngrok' = CheckNgrok(ngrok, probe, ts)
    /\ UNCHANGED <<env, phase, registry, languages, inv, session, now, summary, files>>

NgrokNext ==
    \/ \E p \in ProxyValues : LoadDotenv(p)
    \/ \E probe \in ProbeResults, ts \in TunnelLists : RunCheckNgrok(probe, ts)

\* the module's start, before the agent is constructed
NgrokSpec == Init /\ [][NgrokNext]_vars

Step(c) ==
    \/ Validate(c)
    \/ Begin(c)
    \/ HandlerStart(c)
    \/ SendRequest(c)
    \/ WaitTick(c)
    \/ JokeTimeout(c)
    \/ RemoteTimeout(c)
    \/ Finish(c)

Next ==
    \/ Construct
    \/ Run
    \/ \E c \in Calls, t \in ToolNames, a \in ArgValues : Receive(c, t, a)
    \/ \E c \in Calls : Step(c)
    \/ \E c \in Calls, o \in JokeOutcomes : JokeRespond(c, o)
    \/ \E c \in Calls, o \in RemoteOutcomes, p \in ResponseShapes : RemoteRespond(c, o, p)

\* the tool invocations of the running agent
Spec == Init /\ [][Next]_vars

CallEndNext ==
    \/ Construct
    \/ Run
    \/ Tick
    \/ \E c \in Calls, r \in RawData, io \in IoOutcomes : Summary(c, r, io)

\* the ends of the calls: on_summary reads its raw_data, the clock and the
\* file system, and nothing of the invocations
CallEndSpec == Init /\ [][CallEndNext]_vars

\* the caller of c hangs up; an invocation in flight is abandoned, its
\* handler or request runs on and its result goes nowhere
Hangup(c) ==
    /\ phase = "running"
    /\ session[c].live
    /\ session' = [session EXCEPT ![c] = [session[c] EXCEPT !.live = FALSE]]
    /\ UNCHANGED <<env, phase, registry, languages, inv, now, summary, files, ngrok>>

\* only a live call asks for a tool
ReceiveLive(c, t, a) == session[c].live /\ Receive(c, t, a)

ConcNext ==
    \/ Construct
    \/ Run
    \/ \E c \in Calls, t \in ToolNames, a \in ArgValues : ReceiveLive(c, t, a)
    \/ \E c \in Calls : Step(c)
    \/ \E c \in Calls, o \in JokeOutcomes : JokeRespond(c, o)
    \/ \E c \in Calls, o \in RemoteOutcomes, p \in ResponseShapes : RemoteRespond(c, o, p)
    \/ \E c \in Calls : Hangup(c)

\* simultaneous calls, each of which may end at any moment
ConcSpec == Init /\ [][ConcNext]_vars

\* the process keeps running its own steps; the upstream and the callers owe nothing
LiveSpec == Spec /\ \A c \in Calls : WF_vars(Step(c))

(***************************************************************************)
(* Properties                                                              *)
(***************************************************************************)
NonEmpty(text) == \E k \in 1..Len(text) : text[k] # ""

Failures == {"timeout", "status_error", "unparsable"}

\* C1: every tell_joke invocation ends with on_tell_joke returning a result
\* with non-empty spoken text; no exception leaves on_tell_joke, whatever the
\* upstream answered.
C1_JokeNeverRaises ==
    \A c \in Calls :
        (inv[c].tool = "tell_joke" /\ inv[c].handler # "none")
            => (inv[c].handler = "returned" /\ NonEmpty(inv[c].text))

\* C2: within one invocation the lifecycle only moves forward (a new
\* invocation starts only from Idle or Returned), and an invocation issues at
\* most one HTTP request: a failed request is not retried.
C2_ForwardOnly ==
    [][\A c \in Calls :
          /\ inv'[c].pc # inv[c].pc =>
                \/ Rank(inv'[c].pc) > Rank(inv[c].pc)
                \/ inv[c].pc \in {"Idle", "Returned"} /\ inv'[c].pc \in {"Received", "Idle"}
          /\ inv'[c].pc \notin {"Received", "Idle"} => inv'[c].http >= inv[c].http
          /\ inv'[c].http <= 1]_vars

C2_FailedOnce ==
    \E c, d \in Calls :
        /\ inv[c].tool = "tell_joke" /\ inv[c].pc = "Returned"
        /\ inv[c].outcome \in {"timeout", "conn_error", "http_error", "not_json"}
        /\ inv[c].http = 1
        /\ inv[d].tool = "get_weather" /\ inv[d].pc = "Returned"
        /\ inv[d].outcome \in Failures /\ inv[d].http = 1

\* C3: every invocation that has been received eventually reaches Returned,
\* also when the upstream never answers: the joke request gives up at its
\* timeout and the handler returns its spoken fallback.
C3_EventuallyReturned ==
    \A c \in Calls :
        (inv[c].pc \notin {"Idle", "Returned"}) ~> (inv[c].pc = "Returned")

C3_TimedOutJoke ==
    \E c \in Calls :
        /\ inv[c].tool = "tell_joke" /\ inv[c].pc = "Returned"
        /\ inv[c].outcome = "timeout" /\ inv[c].elapsed = JOKE_TIMEOUT
        /\ inv[c].text = JokeBreak

ExpectedFallback(city) ==
    <<"Sorry, I couldn't get the weather for ">> \o city
    \o <<". ", "Please check the city name and try again.">>

ExpectedSuccess(city) ==
    <<"Weather in ">> \o city \o <<": ", "S", "u", "n", ", ", "7", "2",
      " degrees Fahrenheit, ", "humidity ", "4", "0", " percent. ",
      "Feels like ", "7", "1", " degrees.">>

\* C4: a get_weather invocation whose request was issued returns the fallback
\* template rendered with args only after a timeout, a non-success status or
\* an unparsable body; the success template rendered with args and response
\* after a success with all four response paths; and the fallback template
\* when a response path of the success template is missing.  Nothing else.
C4_WeatherResult ==
    \A c \in Calls :
        (inv[c].tool = "get_weather" /\ inv[c].pc = "Returned" /\ inv[c].http = 1) =>
            \/ /\ inv[c].outcome \in Failures
               /\ inv[c].kind = "fallback"
               /\ inv[c].text = ExpectedFallback(inv[c].args)
            \/ /\ inv[c].outcome = "ok" /\ DOMAIN inv[c].resp = P_all
               /\ inv[c].kind = "success"
               /\ inv[c].text = ExpectedSuccess(inv[c].args)
            \/ /\ inv[c].outcome = "ok" /\ DOMAIN inv[c].resp # P_all
               /\ inv[c].kind = "fallback"
               /\ inv[c].text = ExpectedFallback(inv[c].args)

C4_SuccessAndRenderFailure ==
    \E c, d \in Calls :
        /\ inv[c].tool = "get_weather" /\ inv[c].pc = "Returned"
        /\ inv[c].kind = "success"
        /\ inv[d].tool = "get_weather" /\ inv[d].pc = "Returned"
        /\ inv[d].outcome = "ok" /\ inv[d].err = "TemplateResolutionError"
        /\ inv[d].kind = "fallback"

\* C5: the registered fallback template of get_weather holds only args.*
\* tokens, and wherever the fallback is taken (the upstream timeout included,
\* where there is no response) it renders in the args-only context to a
\* non-empty text.
C5_FallbackArgsOnly ==
    \A c \in Calls :
        (inv[c].tool = "get_weather" /\ inv[c].pc = "Returned" /\ inv[c].err # "none") =>
            /\ \A k \in 1..Len(ToolDef("get_weather").fallback) :
                   ToolDef("get_weather").fallback[k].t = "tok"
                       => ToolDef("get_weather").fallback[k].ns = "args"
            /\ inv[c].kind = "fallback"
            /\ NonEmpty(inv[c].text)

C5_FallbackAfterTimeout ==
    \E c \in Calls :
        /\ inv[c].tool = "get_weather" /\ inv[c].pc = "Returned"
        /\ inv[c].outcome = "timeout" /\ inv[c].resp = NoResponse
        /\ inv[c].kind = "fallback"

\* C6: get_weather invoked without the required city goes straight to the
\* fallback: no request URL is rendered, no HTTP request is issued at any
\* point, and the result is a non-empty spoken fallback.
C6_MissingCityNoRequest ==
    \A c \in Calls :
        (inv[c].tool = "get_weather" /\ inv[c].args = NoCity
            /\ inv[c].pc \notin {"Idle", "Received"}) =>
            /\ inv[c].pc \in {"FallingBack", "Returned"}
            /\ inv[c].err = "ArgumentValidationError"
            /\ inv[c].http = 0 /\ inv[c].req = "none" /\ inv[c].url = NoText
            /\ inv[c].pc = "Returned" =>
                   (inv[c].kind = "fallback" /\ NonEmpty(inv[c].text))

C6_MissingCityReturned ==
    \E c \in Calls :
        /\ inv[c].tool = "get_weather" /\ inv[c].args = NoCity
        /\ inv[c].pc = "Returned" /\ inv[c].http = 0

\* C7: on_summary never raises: an I/O failure of the artifact write is
\* logged and on_summary returns normally.
C7_SummaryNeverRaises ==
    \A c \in Calls : summary[c].status # "raised"

\* C8: after any sequence of on_summary calls every saved call has its own
\* record under its identifier, not overwritten by another call's record,
\* also when the identifier comes from the current second.
C8_OneRecordPerCall ==
    \A c \in Calls :
        summary[c].status = "saved" =>
            /\ files[summary[c].id].owner = c
            /\ files[summary[c].id].raw = summary[c].raw
            /\ files[summary[c].id].complete

\* C9: no state is reachable in which the agent is running, a tool
\* invocation has been accepted and a credential a registered tool refers to
\* is missing.
C9_NoCallWithMissingCredential ==
    ~ /\ phase = "running"
      /\ \E c \in Calls : inv[c].pc # "Idle"
      /\ \/ TellJokeTool \in registry /\ env["API_NINJAS_KEY"] = NoKey
         \/ (\E t \in registry : t.name = "get_weather") /\ env["WEATHER_API_KEY"] = NoKey

HasSpace(text) == \E k \in 1..Len(text) : text[k] = " "

\* C10: the URL rendered for get_weather carries the percent-encoded city in
\* place of ${enc:args.city} and never a literal space, while ${args.city} in
\* the spoken output keeps the city as it was given.
C10_UrlEncoded ==
    \A c \in Calls :
        (inv[c].tool = "get_weather" /\ inv[c].http = 1) =>
            /\ ~HasSpace(inv[c].url)
            /\ inv[c].args = <<"S", " ", "F">> =>
                   inv[c].url = <<"https://api.weatherapi.com/v1/current.json", "?key=">>
                                \o env["WEATHER_API_KEY"]
                                \o <<"&q=", "S", "%", "2", "0", "F">>
            /\ inv[c].args = <<"R", "&", "B">> =>
                   inv[c].url = <<"https://api.weatherapi.com/v1/current.json", "?key=">>
                                \o env["WEATHER_API_KEY"]
                                \o <<"&q=", "R", "%", "2", "6", "B">>
            /\ inv[c].pc = "Returned" =>
                   SubSeq(inv[c].text, 2, 1 + Len(inv[c].args)) = inv[c].args

C10_SpaceCityReturned ==
    \E c \in Calls :
        /\ inv[c].tool = "get_weather" /\ inv[c].args = <<"S", " ", "F">>
        /\ inv[c].http = 1 /\ inv[c].pc = "Returned" /\ inv[c].kind = "success"

\* C11: for en-US the filler of tell_joke comes from tell_joke's own pool and
\* the filler of get_weather, which has no pool of its own, from the
\* language's function_fillers, and it is not empty; for fr-FR, which has no
\* pool, the filler is the empty string and the invocation can still begin
\* to execute.
C11_FillerSelection ==
    \A c \in Calls :
        session[c].filler # "unset" =>
            /\ (session[c].lang = "en-US" /\ inv[c].tool = "tell_joke") =>
                   session[c].filler \in {"Let me think of a good one...",
                                          "Oh, I've got one for you...",
                                          "Here comes a good one..."}
            /\ (session[c].lang = "en-US" /\ inv[c].tool = "get_weather") =>
                   session[c].filler \in {"Let me check on that for you...",
                                          "One moment while I look that up...",
                                          "Hang on just a sec..."}
            /\ session[c].lang = "fr-FR" =>
                   /\ session[c].filler = ""
                   /\ inv[c].pc = "Validated" => ENABLED BeginSpoken(c)

C11_SpokenAndSilent ==
    \E c, d \in Calls :
        /\ session[c].lang = "en-US" /\ inv[c].tool = "tell_joke"
        /\ session[c].filler = "Oh, I've got one for you..." /\ inv[c].pc = "Executing"
        /\ session[d].lang = "fr-FR" /\ inv[d].tool = "get_weather"
        /\ session[d].filler = "" /\ inv[d].pc = "Rendering"

\* C13: with API_NINJAS_KEY unset or empty, on_tell_joke returns its
\* "unavailable" result and issues no HTTP request; a request is issued only
\* in invocations where the key is not empty.
C13_NoKeyNoRequest ==
    \A c \in Calls :
        inv[c].tool = "tell_joke" =>
            /\ env["API_NINJAS_KEY"] = NoKey =>
                   /\ inv[c].http = 0 /\ inv[c].req = "none"
                   /\ inv[c].handler \in {"none", "returned"}
                   /\ inv[c].handler = "returned" =>
                          /\ inv[c].kind = "unavailable"
                          /\ inv[c].text = <<"Sorry, my joke book is unavailable right now.">>
            /\ inv[c].http > 0 => env["API_NINJAS_KEY"] # NoKey

C13_UnavailableReturned ==
    \E c \in Calls :
        /\ inv[c].tool = "tell_joke" /\ env["API_NINJAS_KEY"] = NoKey
        /\ inv[c].pc = "Returned" /\ inv[c].kind = "unavailable" /\ inv[c].http = 0

HttpsAt(ts) == {k \in 1..Len(ts) : ts[k].proto = "https"}

FirstHttps(ts) == CHOOSE k \in HttpsAt(ts) : \A j \in HttpsAt(ts) : k <= j

Current(g) == IF g.before = "unset" THEN "" ELSE g.before

Kept(g) == g.proxy = g.before /\ g.ret = Current(g)

SetTo(g, u) == g.proxy = u /\ g.ret = u

\* C14 as stated: check_ngrok never raises; when the probe succeeds and the
\* first entry with proto https has a public_url it sets SWML_PROXY_URL_BASE
\* to it and returns it, and in every other case it leaves the variable
\* alone and returns its current value, the empty string when unset.
C14_AsStated ==
    ngrok.pc = "done" =>
        /\ ~ngrok.raised
        /\ IF /\ ngrok.probe = "ok"
              /\ HttpsAt(ngrok.tunnels) # {}
              /\ ngrok.tunnels[FirstHttps(ngrok.tunnels)].url \in TunnelUrls
           THEN SetTo(ngrok, ngrok.tunnels[FirstHttps(ngrok.tunnels)].url)
           ELSE Kept(ngrok)

\* C14, amended: the variable is set and returned when moreover every entry
\* before the first https one is a mapping (and the public_url is a string);
\* otherwise it is left alone and its current value returned.
C14_TwoOutcomes ==
    ngrok.pc = "done" =>
        /\ ~ngrok.raised
        /\ IF /\ ngrok.probe = "ok"
              /\ HttpsAt(ngrok.tunnels) # {}
              /\ ngrok.tunnels[FirstHttps(ngrok.tunnels)].url \in TunnelUrls
              /\ \A j \in 1..(FirstHttps(ngrok.tunnels) - 1) :
                     ngrok.tunnels[j].proto # "not_mapping"
           THEN SetTo(ngrok, ngrok.tunnels[FirstHttps(ngrok.tunnels)].url)
           ELSE Kept(ngrok)

\* a tunnel found behind an http entry replaces the value from .env
C14_TunnelDetected ==
    /\ ngrok.pc = "done" /\ ngrok.probe = "ok" /\ ngrok.before = "https://env.example"
    /\ Len(ngrok.tunnels) = 2
    /\ ngrok.tunnels[1].proto = "http"
    /\ ngrok.tunnels[2] = [proto |-> "https", url |-> "https://a.ngrok.app"]
    /\ ngrok.proxy = "https://a.ngrok.app"
    /\ ngrok.ret = "https://a.ngrok.app"

InFlight(c) == inv[c].pc \notin {"Idle", "Returned"}

\* equal tool, arguments and upstream outcome give equal results
SameInputsSameResult ==
    \A c, d \in Calls :
        (/\ inv[c].pc = "Returned" /\ inv[d].pc = "Returned"
         /\ inv[c].tool = inv[d].tool /\ inv[c].args = inv[d].args
         /\ inv[c].outcome = inv[d].outcome /\ inv[c].resp = inv[d].resp)
        => inv[c].kind = inv[d].kind /\ inv[c].text = inv[d].text

\* an invocation in flight has a step of its own to take, whatever the
\* other calls are doing
NotBlocked == \A c \in Calls : InFlight(c) => ENABLED Step(c)

\* a step leaves the registry and the filler pools of the running agent
\* alone and touches the invocation of one call at most
SharedUntouched ==
    /\ phase = "running" => registry' = registry /\ languages' = languages
    /\ \A c, d \in Calls : c # d => inv'[c] = inv[c] \/ inv'[d] = inv[d]

\* C12: under every interleaving of the invocations of simultaneous calls,
\* a result depends only on the invocation's own arguments and upstream
\* outcome, no invocation (an abandoned one included) changes the tool
\* registry or the filler pools, and none waits on another call's
\* invocation.
C12_SessionsIndependent ==
    /\ [](SameInputsSameResult /\ NotBlocked)
    /\ [][SharedUntouched]_vars

\* one call hung up with its joke request in flight while the other got
\* its weather
C12_AbandonedInFlight ==
    /\ ~session["c1"].live /\ inv["c1"].tool = "tell_joke" /\ inv["c1"].req = "pending"
    /\ session["c2"].live /\ inv["c2"].tool = "get_weather"
    /\ inv["c2"].pc = "Returned" /\ inv["c2"].outcome = "ok"
    /\ languages = ConfiguredLanguages

=============================================================================
